---- MODULE Spec2Model ----
(***************************************************************************)
(* The NVVM annotation cache of llvm/lib/Target/NVPTX/NVPTXUtilities.cpp:  *)
(* clearAnnotationCache, the two cacheAnnotationFromMD overloads,          *)
(* findOneNVVMAnnotation and findAllNVVMAnnotation, run by several         *)
(* compilation threads over the modules of one process.                    *)
(*                                                                         *)
(* A thread's step runs from one acquisition of AnnotationCache::Lock to   *)
(* the next one: everything between two lock_guard constructions touches   *)
(* only the thread's locals and the cache it holds the lock of, so these   *)
(* are the only points where another thread can be scheduled in between.   *)
(***************************************************************************)
EXTENDS Integers, Sequences, FiniteSets, TLC

(***************************************************************************)
(* The program the threads compile: two modules, three global values.      *)
(***************************************************************************)
Threads == {"t1", "t2"}
Modules == {"m1", "m2"}
GlobalValues == {"g1", "g2", "g3"}
NoThread == "none"
NoValue == "-"

\* GlobalValue::getParent
getParent(gv) == IF gv = "g3" THEN "m2" ELSE "m1"

\* The property names, and the name/value pairs the front end writes (i32
\* constants).
Props == {"maxntidx", "kernel"}
Pairs == {<<"maxntidx", 4>>, <<"maxntidx", 8>>, <<"kernel", 1>>}

\* Bounds of the metadata of the whole program: MDNodes under the
\* nvvm.annotations lists, and name/value pairs in those MDNodes.
MaxRecs == 2
MaxPairs == 2

(***************************************************************************)
(* Metadata operands.  An MDNode is the sequence of its operands; operand  *)
(* 0 of the source is element 1 here.                                      *)
(***************************************************************************)
MDString(s) == [kind |-> "MDString", str |-> s]
ConstantInt(n) == [kind |-> "ConstantInt", int |-> n]
GlobalValueMD(g) == [kind |-> "GlobalValue", gv |-> g]
NullMD == [kind |-> "null"]

\* mdconst::dyn_extract_or_null<GlobalValue>(elem->getOperand(0)): the global
\* value the operand wraps, or null.
ExtractGlobalValue(op) == IF op.kind = "GlobalValue" THEN op.gv ELSE NoValue

\* Val->getZExtValue() stored into a std::vector<unsigned>: the low 32 bits.
ZExtToUnsigned(n) == n - ((n \div 65536) \div 65536) * 65536 * 65536

\* The empty std::map.
EmptyMap == [k \in {} |-> k]

(***************************************************************************)
(* cacheAnnotationFromMD(const MDNode *md, key_val_pair_t &retval)         *)
(***************************************************************************)
\* The assertions of lines 58-69, on the operands the loop visits.
ReaderAsserts(md) ==
    /\ Len(md) % 2 = 1
    /\ \A j \in 2..Len(md) :
          IF j % 2 = 0 THEN md[j].kind = "MDString"
                       ELSE md[j].kind = "ConstantInt"

\* ReadPairs with line 73 assigning a fresh one-element vector, as line 77
\* does, instead of push_back.
RECURSIVE ReadPairsOverwrite(_, _, _)
ReadPairsOverwrite(md, i, retval) ==
    IF i = Len(md) THEN retval
    ELSE LET keyname == md[i + 1].str
             val == ZExtToUnsigned(md[i + 2].int)
         IN  ReadPairsOverwrite(md, i + 2,
                 (keyname :> <<val>>) @@ retval)

\* ReadPairs without the push_back of line 76: a name met for the first
\* time gets an empty vector.
RECURSIVE ReadPairsNoPush(_, _, _)
ReadPairsNoPush(md, i, retval) ==
    IF i = Len(md) THEN retval
    ELSE LET keyname == md[i + 1].str
             val == ZExtToUnsigned(md[i + 2].int)
         IN  ReadPairsNoPush(md, i + 2,
                 IF keyname \in DOMAIN retval
                 THEN [retval EXCEPT ![keyname] = Append(@, val)]
                 ELSE retval @@ (keyname :> <<>>))

\* The loop of lines 62-79 from source index i (element i + 1).
RECURSIVE ReadPairs(_, _, _)
ReadPairs(md, i, retval) ==
    IF i = Len(md) THEN retval
    ELSE LET keyname == md[i + 1].str
             val == ZExtToUnsigned(md[i + 2].int)
         IN  ReadPairs(md, i + 2,
                 IF keyname \in DOMAIN retval
                 THEN [retval EXCEPT ![keyname] = Append(@, val)]
                 ELSE retval @@ (keyname :> <<val>>))

\* The reader with its loop starting at the second pair.
ReadMDNodeFromSecondPair(md, retval) ==
    ReadPairs(md, IF Len(md) >= 3 THEN 3 ELSE 1, retval)

ReadMDNode(md, retval) == ReadPairs(md, 1, retval)

\* The operands the loop of lines 62-79 reads before it comes to one that
\* an assertion of lines 59-69 rejects: from source index i on.
RECURSIVE ReadablePrefix(_, _)
ReadablePrefix(md, i) ==
    IF /\ i + 2 <= Len(md)
       /\ md[i + 1].kind = "MDString"
       /\ md[i + 2].kind = "ConstantInt"
    THEN ReadablePrefix(md, i + 2)
    ELSE SubSeq(md, 1, i)

\* With assert() compiled out, the loop on a record the assertions reject
\* reads past the operands (line 68, line 62 with `i != e` never true) or
\* through a null pointer (lines 71, 73): undefined behaviour.  When the
\* call returns at all, retval holds what was read up to there, with or
\* without a value of the build's making under the name the loop was at.
ReaderUB(md, retval) ==
    LET pre == ReadablePrefix(md, 1)
        r == ReadPairs(pre, 1, retval)
        names == IF Len(md) > Len(pre) /\ md[Len(pre) + 1].kind = "MDString"
                 THEN {md[Len(pre) + 1].str} ELSE {}
    IN  {r} \cup {ReadPairs(<<md[1], MDString(n), ConstantInt(0)>>, 1, r) :
                     n \in names}

(***************************************************************************)
(* State.                                                                  *)
(***************************************************************************)
VARIABLES
    NMD,    \* per module: m->getNamedMetadata("nvvm.annotations")
    Cache,  \* AnnotationCache::Cache
    Lock,   \* AnnotationCache::Lock: the owning thread and its nesting depth
    pc,     \* per thread: where it stands
    arg,    \* per thread: the call it is in
    scan,   \* per thread: i and tmp of cacheAnnotationFromMD(m, gv)
    out,    \* per thread: the returned bool and the output parameter
    obs,    \* per thread: what an instrumented build records of the call
    queried,  \* global values a find has returned for since the last clear
              \* of their module
    cleared,  \* global values whose entry a clear erased, with no find
              \* made since
    NDEBUG,   \* the build: TRUE when assert() is compiled out
    util      \* per thread: the derived predicate it is in, and its result

vars == <<NMD, Cache, Lock, pc, arg, scan, out, obs, queried, cleared,
          NDEBUG, util>>

NoNMD == [exists |-> FALSE, operands |-> <<>>]
NoArg == [fn |-> NoValue, Mod |-> NoValue, gv |-> NoValue, prop |-> NoValue]
NoScan == [i |-> 0, tmp |-> EmptyMap]
NoOut == [found |-> FALSE, written |-> FALSE, retval |-> <<>>]
\* scanned: the call ran cacheAnnotationFromMD(m, gv); uncached: it found no
\* entry of (m, gv); afterClear: it is the first find made since a clear
\* erased gv's entry; hit: when it was made, a find for gv had returned and
\* no clear of the module has erased since; repeat, prev: it repeats the
\* thread's last call, which returned prev, with no such clear in between;
\* cut: such a clear erased after the call returned.
NoObs == [scanned |-> FALSE, uncached |-> FALSE, afterClear |-> FALSE,
          hit |-> FALSE, repeat |-> FALSE, prev |-> NoOut, cut |-> FALSE]
Unlocked == [owner |-> NoThread, depth |-> 0]
\* fn: the derived predicate called, in: its arguments, res: what it returned.
NoUtil == [fn |-> NoValue, in |-> <<>>, res |-> <<>>]

(***************************************************************************)
(* sys::Mutex under std::lock_guard: a mutex the owning thread may lock    *)
(* again.                                                                  *)
(***************************************************************************)
CanLock(lock, t) == lock.owner = NoThread \/ lock.owner = t

Acquire(lock, t) == [owner |-> t, depth |-> lock.depth + 1]

Release(lock) ==
    IF lock.depth = 1 THEN Unlocked
    ELSE [owner |-> lock.owner, depth |-> lock.depth - 1]

(***************************************************************************)
(* The module's metadata.                                                  *)
(***************************************************************************)
\* Name/value pairs of one MDNode, and of all the MDNodes of a list.
NumPairs(md) == (Len(md) - 1) \div 2

RECURSIVE SumPairs(_)
SumPairs(ops) == IF ops = <<>> THEN 0 ELSE NumPairs(Head(ops)) + SumPairs(Tail(ops))

RECURSIVE SumOver(_, _)
SumOver(f, S) ==
    IF S = {} THEN 0
    ELSE LET x == CHOOSE y \in S : TRUE IN f[x] + SumOver(f, S \ {x})

TotalRecs == SumOver([m \in Modules |-> Len(NMD[m].operands)], Modules)
TotalPairs == SumOver([m \in Modules |-> SumPairs(NMD[m].operands)], Modules)

\* What operand 0 of an MDNode of module m may be: a global value of m, or
\* null once the global value was deleted.
Subjects(m) == {GlobalValueMD(g) : g \in {x \in GlobalValues : getParent(x) = m}}
                  \cup {NullMD}

\* The operands after operand 0: at most k name/value pairs.
RECURSIVE PairOperands(_)
PairOperands(k) ==
    IF k = 0 THEN {<<>>}
    ELSE LET shorter == PairOperands(k - 1)
         IN  shorter \cup
             {s \o <<MDString(p[1]), ConstantInt(p[2])>> :
                 s \in {x \in shorter : Len(x) = 2 * (k - 1)}, p \in Pairs}

\* Operands the reader rejects: a name without a value (an even number of
\* operands, line 59).
MalformedOperands == {<<MDString("kernel")>>}

\* The MDNodes a module may hold: hand-written IR is not held to the form
\* the front end writes.
MDNodes(m, k) ==
    {<<subj>> \o ps : subj \in Subjects(m),
                      ps \in PairOperands(k) \cup MalformedOperands}

\* Between two calls, or before the call it has made takes the lock, the
\* thread that compiles module m adds a record to its list
\* (NamedMDNode::addOperand), creating the list when missing.
AddOperand(t, m, md) ==
    /\ pc[t] \in {"idle", "find"}
    /\ TotalRecs < MaxRecs
    /\ TotalPairs + NumPairs(md) <= MaxPairs
    /\ NMD' = [NMD EXCEPT ![m] = [exists |-> TRUE,
                                   operands |-> Append(@.operands, md)]]
    /\ UNCHANGED <<Cache, Lock, pc, arg, scan, out, obs, queried, cleared,
                 NDEBUG, util>>

(***************************************************************************)
(* The cache operations.                                                   *)
(***************************************************************************)
\* Erase with the erase left out.
EraseNothing(cache, Mod) == cache

\* Erase as AC.Cache.clear().
EraseAll(cache, Mod) == EmptyMap

\* AC.Cache.erase(Mod), line 52.
Erase(cache, Mod) == [m \in (DOMAIN cache) \ {Mod} |-> cache[m]]

\* IsCached taking an entry with an empty Property Map for a missing one.
IsCachedNonEmpty(cache, m, gv) ==
    /\ m \in DOMAIN cache
    /\ gv \in DOMAIN cache[m]
    /\ cache[m][gv] # EmptyMap

\* IsCached finding nothing: every find calls cacheAnnotationFromMD.
IsCachedNever(cache, m, gv) == FALSE

\* The test of lines 121-124: neither branch calls cacheAnnotationFromMD.
IsCached(cache, m, gv) ==
    /\ m \in DOMAIN cache
    /\ gv \in DOMAIN cache[m]

\* NextMatch without the test of line 97: any record of a global value.
RECURSIVE NextMatchAnySubject(_, _, _)
NextMatchAnySubject(ops, gv, i) ==
    IF i > Len(ops) THEN i
    ELSE IF ExtractGlobalValue(ops[i][1]) # NoValue THEN i
    ELSE NextMatchAnySubject(ops, gv, i + 1)

\* NextMatch with the test of line 95 folded into line 97 as
\* `if (entity && entity != gv) continue;`.
RECURSIVE NextMatchNullSubject(_, _, _)
NextMatchNullSubject(ops, gv, i) ==
    IF i > Len(ops) THEN i
    ELSE IF ExtractGlobalValue(ops[i][1]) \in {gv, NoValue} THEN i
    ELSE NextMatchNullSubject(ops, gv, i + 1)

\* Lines 89-98: the first record at or after source index i whose operand 0
\* is gv; records of a null or another subject are passed over.
RECURSIVE NextMatch(_, _, _)
NextMatch(ops, gv, i) ==
    IF i > Len(ops) THEN i
    ELSE IF ExtractGlobalValue(ops[i][1]) = gv THEN i
    ELSE NextMatch(ops, gv, i + 1)

\* Store taking the else branch of lines 109-112 also when the module has
\* entries: AC.Cache[m] becomes a map that holds gv alone.
StoreReplacesModule(cache, m, gv, tmp) ==
    IF tmp = EmptyMap THEN cache
    ELSE (m :> (gv :> tmp)) @@ cache

\* Lines 104-113: tmp goes under (m, gv) unless it is empty.
Store(cache, m, gv, tmp) ==
    IF tmp = EmptyMap THEN cache
    ELSE IF m \in DOMAIN cache
         THEN [cache EXCEPT ![m] = (gv :> tmp) @@ @]
         ELSE (m :> (gv :> tmp)) @@ cache

\* AC.Cache[m][gv] of lines 125 and 140: std::map::operator[] inserts a
\* value-initialised entry for a key it does not find.
Subscript(cache, m, gv) ==
    LET c1 == IF m \in DOMAIN cache THEN cache ELSE (m :> EmptyMap) @@ cache
    IN  IF gv \in DOMAIN c1[m] THEN c1
        ELSE [c1 EXCEPT ![m] = (gv :> EmptyMap) @@ @]

\* Lines 125-128 and 140-143 on the cache after Subscript.  retval is what
\* the call wrote to its output parameter: nothing, the one unsigned of
\* findOne, or the vector of findAll.
FindOneResult(kv, prop) ==
    IF prop \notin DOMAIN kv
    THEN [found |-> FALSE, written |-> FALSE, retval |-> <<>>]
    ELSE [found |-> TRUE, written |-> TRUE, retval |-> <<kv[prop][1]>>]

FindAllResult(kv, prop) ==
    IF prop \notin DOMAIN kv
    THEN [found |-> FALSE, written |-> FALSE, retval |-> <<>>]
    ELSE [found |-> TRUE, written |-> TRUE, retval |-> kv[prop]]

Result(fn, kv, prop) ==
    IF fn = "findOneNVVMAnnotation" THEN FindOneResult(kv, prop)
    ELSE FindAllResult(kv, prop)

\* What the call can return: line 127 reads element 0 of the vector, which
\* is undefined behaviour on an empty vector and yields whatever the memory
\* holds.
Results(fn, kv, prop) ==
    IF fn = "findOneNVVMAnnotation" /\ prop \in DOMAIN kv /\ kv[prop] = <<>>
    THEN {[found |-> TRUE, written |-> TRUE, retval |-> <<v>>] : v \in {0, 1}}
    ELSE {Result(fn, kv, prop)}

(***************************************************************************)
(* The threads.  pc: "idle" (no call), "find" (in findOne/findAll, at the  *)
(* lock_guard of line 119/134), "populate" (at the lock_guard of line 84), *)
(* "reader" (at the lock_guard of line 57, for record scan.i), "clear" (at *)
(* the lock_guard of line 51), "erase" (at line 52), "ret" (the call has   *)
(* returned), "abort" (an assertion failed), "crash" (undefined behaviour  *)
(* ended the process), "done" (a derived predicate has returned).          *)
(***************************************************************************)
FindFns == {"findOneNVVMAnnotation", "findAllNVVMAnnotation"}

\* A thread calls findOneNVVMAnnotation or findAllNVVMAnnotation.
CallFind(t, fn, gv, prop) ==
    /\ pc[t] = "idle"
    /\ pc' = [pc EXCEPT ![t] = "find"]
    /\ arg' = [arg EXCEPT ![t] = [fn |-> fn, Mod |-> getParent(gv),
                                  gv |-> gv, prop |-> prop]]
    /\ obs' = [obs EXCEPT ![t].hit = gv \in queried]
    /\ UNCHANGED <<NMD, Cache, Lock, scan, out, queried, cleared,
                 NDEBUG, util>>

\* A thread makes the call it has just made once more.
Recall(t) ==
    /\ pc[t] = "ret"
    /\ arg[t].fn \in FindFns
    /\ pc' = [pc EXCEPT ![t] = "find"]
    /\ obs' = [obs EXCEPT ![t] =
                 IF obs[t].cut THEN NoObs
                 ELSE [NoObs EXCEPT !.hit = arg[t].gv \in queried,
                                    !.repeat = TRUE, !.prev = out[t]]]
    /\ out' = [out EXCEPT ![t] = NoOut]
    /\ UNCHANGED <<NMD, Cache, Lock, arg, scan, queried, cleared,
                 NDEBUG, util>>

\* A thread calls clearAnnotationCache.
CallClear(t, Mod) ==
    /\ pc[t] = "idle"
    /\ pc' = [pc EXCEPT ![t] = "clear"]
    /\ arg' = [arg EXCEPT ![t] = [fn |-> "clearAnnotationCache", Mod |-> Mod,
                                  gv |-> NoValue, prop |-> NoValue]]
    /\ UNCHANGED <<NMD, Cache, Lock, scan, out, obs, queried, cleared,
                 NDEBUG, util>>

\* ClearEnter without the lock_guard of line 51.
ClearEnterUnlocked(t) ==
    /\ pc[t] = "clear"
    /\ pc' = [pc EXCEPT ![t] = "erase"]
    /\ UNCHANGED <<NMD, Cache, Lock, arg, scan, out, obs, queried, cleared,
                 NDEBUG, util>>

\* clearAnnotationCache, lines 50-51: the lock_guard.
ClearEnter(t) ==
    /\ pc[t] = "clear"
    /\ CanLock(Lock, t)
    /\ Lock' = Acquire(Lock, t)
    /\ pc' = [pc EXCEPT ![t] = "erase"]
    /\ UNCHANGED <<NMD, Cache, arg, scan, out, obs, queried, cleared,
                 NDEBUG, util>>

\* clearAnnotationCache, lines 52-53: the erase and the return.
ClearErase(t) ==
    LET Mod == arg[t].Mod
        gone == IF Mod \in DOMAIN Cache THEN DOMAIN Cache[Mod] ELSE {}
    IN  /\ pc[t] = "erase"
        /\ Cache' = Erase(Cache, Mod)
        /\ Lock' = Release(Lock)
        /\ pc' = [pc EXCEPT ![t] = "ret"]
        /\ queried' = {g \in queried : getParent(g) # Mod}
        /\ cleared' = cleared \cup gone
        /\ obs' = [u \in Threads |->
                     IF arg[u].fn \in FindFns /\ arg[u].Mod = Mod
                     THEN IF pc[u] = "ret"
                          THEN [obs[u] EXCEPT !.cut = TRUE]
                          ELSE [obs[u] EXCEPT !.hit = FALSE, !.repeat = FALSE,
                                              !.prev = NoOut]
                     ELSE obs[u]]
        /\ UNCHANGED <<NMD, arg, scan, out, NDEBUG, util>>

\* Lookup returning without the unlock of the guard of line 119/134.
LookupKeepsLock(t, cache, lock) ==
    LET a == arg[t]
        c == Subscript(cache, a.Mod, a.gv)
    IN  /\ Cache' = c
        /\ \E r \in Results(a.fn, c[a.Mod][a.gv], a.prop) :
              out' = [out EXCEPT ![t] = r]
        /\ Lock' = lock
        /\ pc' = [pc EXCEPT ![t] = "ret"]
        /\ scan' = [scan EXCEPT ![t] = NoScan]
        /\ queried' = queried \cup {a.gv}

\* Lines 125-128 / 140-143 and the return of findOne/findAll: `lock` is the
\* lock as held when line 125 is reached, `cache` the cache at that line.
Lookup(t, cache, lock) ==
    LET a == arg[t]
        c == Subscript(cache, a.Mod, a.gv)
    IN  /\ Cache' = c
        /\ \E r \in Results(a.fn, c[a.Mod][a.gv], a.prop) :
              out' = [out EXCEPT ![t] = r]
        /\ Lock' = Release(lock)
        /\ pc' = [pc EXCEPT ![t] = "ret"]
        /\ scan' = [scan EXCEPT ![t] = NoScan]
        /\ queried' = queried \cup {a.gv}

\* FindEnter without the lock_guard of line 119/134.
FindEnterUnlocked(t) ==
    /\ pc[t] = "find"
    /\ LET cached == IsCached(Cache, arg[t].Mod, arg[t].gv)
       IN  /\ obs' = [obs EXCEPT ![t].uncached = ~cached,
                                 ![t].afterClear = arg[t].gv \in cleared]
           /\ cleared' = {}
           /\ IF cached
              THEN LookupKeepsLock(t, Cache, Lock)
              ELSE /\ pc' = [pc EXCEPT ![t] = "populate"]
                   /\ UNCHANGED <<Cache, Lock, scan, out, queried>>
    /\ UNCHANGED <<NMD, arg, NDEBUG, util>>

\* findOne/findAll from the lock_guard of line 119/134: on a hit to the
\* return, on a miss to the call of cacheAnnotationFromMD(m, gv).
FindEnter(t) ==
    /\ pc[t] = "find"
    /\ CanLock(Lock, t)
    /\ LET cached == IsCached(Cache, arg[t].Mod, arg[t].gv)
       IN  /\ obs' = [obs EXCEPT ![t].uncached = ~cached,
                                 ![t].afterClear = arg[t].gv \in cleared]
           /\ cleared' = {}
           /\ IF cached
              THEN Lookup(t, Cache, Acquire(Lock, t))
              ELSE /\ Lock' = Acquire(Lock, t)
                   /\ pc' = [pc EXCEPT ![t] = "populate"]
                   /\ UNCHANGED <<Cache, scan, out, queried>>
    /\ UNCHANGED <<NMD, arg, NDEBUG, util>>

\* cacheAnnotationFromMD(m, gv) from the lock_guard of line 84 to the first
\* call of the reader, or, when no record is gv's, to its return and on to
\* the return of findOne/findAll.
PopulateEnter(t) ==
    /\ pc[t] = "populate"
    /\ CanLock(Lock, t)
    /\ obs' = [obs EXCEPT ![t].scanned = TRUE]
    /\ LET nmd == NMD[arg[t].Mod]
           i == NextMatch(nmd.operands, arg[t].gv, 1)
       IN  IF ~nmd.exists
           THEN Lookup(t, Cache, Release(Acquire(Lock, t)))
           ELSE IF i > Len(nmd.operands)
           THEN Lookup(t, Store(Cache, arg[t].Mod, arg[t].gv, EmptyMap),
                       Release(Acquire(Lock, t)))
           ELSE /\ Lock' = Acquire(Lock, t)
                /\ scan' = [scan EXCEPT ![t] = [i |-> i, tmp |-> EmptyMap]]
                /\ pc' = [pc EXCEPT ![t] = "reader"]
                /\ UNCHANGED <<Cache, out, queried>>
    /\ UNCHANGED <<NMD, arg, cleared, NDEBUG, util>>

\* cacheAnnotationFromMD(elem, tmp) on record scan.i, lines 55-80, and the
\* loop of lines 89-102 on to the next record of gv, or to the end of
\* cacheAnnotationFromMD(m, gv) and on to the return of findOne/findAll.
ReadRecord(t) ==
    /\ pc[t] = "reader"
    /\ CanLock(Lock, t)
    /\ LET ops == NMD[arg[t].Mod].operands
           md == ops[scan[t].i]
           i == NextMatch(ops, arg[t].gv, scan[t].i + 1)
           Fail(to) == /\ pc' = [pc EXCEPT ![t] = to]
                       /\ Lock' = Acquire(Lock, t)
                       /\ UNCHANGED <<Cache, scan, out, queried>>
           Go(tmp) ==
               IF i > Len(ops)
               THEN Lookup(t, Store(Cache, arg[t].Mod, arg[t].gv, tmp),
                           Release(Release(Acquire(Lock, t))))
               ELSE /\ Lock' = Release(Acquire(Lock, t))
                    /\ scan' = [scan EXCEPT ![t] = [i |-> i, tmp |-> tmp]]
                    /\ UNCHANGED <<Cache, pc, out, queried>>
       IN  IF ReaderAsserts(md) THEN Go(ReadMDNode(md, scan[t].tmp))
           ELSE IF ~NDEBUG THEN Fail("abort")
           ELSE \/ Fail("crash")
                \/ \E tmp \in ReaderUB(md, scan[t].tmp) : Go(tmp)
    /\ UNCHANGED <<NMD, arg, obs, cleared, NDEBUG, util>>

\* The caller goes on; the call's locals are gone.
Return(t) ==
    /\ pc[t] = "ret"
    /\ pc' = [pc EXCEPT ![t] = "idle"]
    /\ arg' = [arg EXCEPT ![t] = NoArg]
    /\ out' = [out EXCEPT ![t] = NoOut]
    /\ obs' = [obs EXCEPT ![t] = NoObs]
    /\ UNCHANGED <<NMD, Cache, Lock, scan, queried, cleared, NDEBUG, util>>

ThreadStep(t) ==
    \/ \E fn \in FindFns, gv \in GlobalValues, prop \in Props :
          CallFind(t, fn, gv, prop)
    \/ Recall(t)
    \/ \E Mod \in Modules : CallClear(t, Mod)
    \/ ClearEnter(t)
    \/ ClearErase(t)
    \/ FindEnter(t)
    \/ PopulateEnter(t)
    \/ ReadRecord(t)
    \/ Return(t)

\* At start-up: nothing is cached, nobody holds the lock.
InitCache ==
    /\ Cache = EmptyMap
    /\ Lock = Unlocked
    /\ pc = [t \in Threads |-> "idle"]
    /\ arg = [t \in Threads |-> NoArg]
    /\ scan = [t \in Threads |-> NoScan]
    /\ out = [t \in Threads |-> NoOut]
    /\ obs = [t \in Threads |-> NoObs]
    /\ queried = {}
    /\ cleared = {}
    /\ NDEBUG \in BOOLEAN
    /\ util = [t \in Threads |-> NoUtil]

(***************************************************************************)
(* One compilation thread, over modules that start without annotations and *)
(* whose metadata grows.                                                   *)
(***************************************************************************)
Init ==
    /\ NMD = [m \in Modules |-> NoNMD]
    /\ InitCache

Next ==
    \/ ThreadStep("t1")
    \/ \E m \in Modules : \E md \in MDNodes(m, MaxPairs) :
          AddOperand("t1", m, md)

Spec == Init /\ [][Next]_vars

(***************************************************************************)
(* Several compilation threads, over modules whose metadata stays as it    *)
(* is: g1 has two records with a null-subject record in between, g2 has    *)
(* none, and g3's module has no nvvm.annotations.                          *)
(***************************************************************************)
InitThreads ==
    /\ NMD = [m \in Modules |->
                IF m = "m1"
                THEN [exists |-> TRUE,
                      operands |->
                        << <<GlobalValueMD("g1"), MDString("kernel"), ConstantInt(1),
                             MDString("maxntidx"), ConstantInt(4)>>,
                           <<NullMD, MDString("maxntidx"), ConstantInt(8)>>,
                           <<GlobalValueMD("g1"), MDString("maxntidx"), ConstantInt(8)>> >>]
                ELSE NoNMD]
    /\ InitCache

NextThreads == \E t \in Threads : ThreadStep(t)

SpecThreads == InitThreads /\ [][NextThreads]_vars

\* The scheduler runs every thread that can take a step, and a thread that
\* waits for the lock gets it at some time when the lock is free again and
\* again; no thread has to make a call.
InCallStep(t) == ClearErase(t) \/ PopulateEnter(t) \/ ReadRecord(t)

Fairness ==
    \A t \in Threads :
        /\ WF_vars(InCallStep(t))
        /\ SF_vars(FindEnter(t))
        /\ SF_vars(ClearEnter(t))

FairSpecThreads == SpecThreads /\ Fairness

(***************************************************************************)
(* The derived predicates, lines 146-362.  Each makes at most one call of  *)
(* findOne/findAll; its operator takes the arguments of the predicate and  *)
(* o, what that call returned (NoOut when the call is not made), and gives *)
(* what the predicate does: return a value, or fail an assertion.          *)
(***************************************************************************)
Ret(v) == [abort |-> FALSE, val |-> <<v>>]
AssertionFailed == [abort |-> TRUE, val |-> <<>>]

\* The values the predicates are asked about.
GlobalVar(g) == [kind |-> "GlobalValue", gv |-> g]
Argument(f, n) == [kind |-> "Argument", gv |-> f, argNo |-> n]

\* is_contained(annot, arg->getArgNo())
is_contained(annot, n) == \E k \in 1..Len(annot) : annot[k] = n

\* AnnotIsOne where the predicate returns the comparison instead of
\* asserting it: `return annot == 1;`.
AnnotIsOneCompared(o, ndebug) ==
    IF ~o.found THEN Ret(FALSE) ELSE Ret(o.retval[1] = 1)

\* `if (findOneNVVMAnnotation(gv, name, annot)) { assert(annot == 1);
\* return true; }` and the `return false` behind it.
AnnotIsOne(o, ndebug) ==
    IF ~o.found THEN Ret(FALSE)
    ELSE IF o.retval[1] # 1 /\ ~ndebug THEN AssertionFailed
    ELSE Ret(TRUE)

\* `if (findAllNVVMAnnotation(func, name, annot))
\*    if (is_contained(annot, arg->getArgNo())) return true;`
ArgIsListed(o, n) == Ret(o.found /\ is_contained(o.retval, n))

isTexture(val, o, ndebug) ==
    IF val.kind = "GlobalValue" THEN AnnotIsOne(o, ndebug) ELSE Ret(FALSE)

isSurface(val, o, ndebug) ==
    IF val.kind = "GlobalValue" THEN AnnotIsOne(o, ndebug) ELSE Ret(FALSE)

isSampler(val, o, ndebug) ==
    IF val.kind = "GlobalValue" THEN AnnotIsOne(o, ndebug)
    ELSE IF val.kind = "Argument" THEN ArgIsListed(o, val.argNo)
    ELSE Ret(FALSE)

isImageReadOnly(val, o) ==
    IF val.kind = "Argument" THEN ArgIsListed(o, val.argNo) ELSE Ret(FALSE)

isImageWriteOnly(val, o) ==
    IF val.kind = "Argument" THEN ArgIsListed(o, val.argNo) ELSE Ret(FALSE)

isImageReadWrite(val, o) ==
    IF val.kind = "Argument" THEN ArgIsListed(o, val.argNo) ELSE Ret(FALSE)

isManaged(val, o, ndebug) ==
    IF val.kind = "GlobalValue" THEN AnnotIsOne(o, ndebug) ELSE Ret(FALSE)

\* isKernelFunction that looks at the calling convention first.
isKernelFunctionByConv(F, o) ==
    IF F.cc = "PTX_Kernel" THEN TRUE ELSE o.found /\ o.retval[1] = 1

\* Lines 291-299.  F.cc is F.getCallingConv().
isKernelFunction(F, o) ==
    IF ~o.found THEN F.cc = "PTX_Kernel" ELSE o.retval[1] = 1

\* The loop of lines 313-315 from element k: V >> 16 is the parameter
\* index, V & 0xFFFF the alignment.  A MaybeAlign is <<>> (std::nullopt) or
\* <<alignment>>.
RECURSIVE AlignOf(_, _, _)
AlignOf(Vs, Index, k) ==
    IF k > Len(Vs) THEN <<>>
    ELSE IF Vs[k] \div 65536 = Index THEN <<Vs[k] % 65536>>
    ELSE AlignOf(Vs, Index, k + 1)

\* getAlign that does not ask for the stack-alignment attribute.
getAlignLegacyOnly(F, Index, o) ==
    IF ~o.found THEN <<>> ELSE AlignOf(o.retval, Index, 1)

\* getAlign(const Function &, unsigned), lines 301-317.  F.stackAlign is
\* F.getAttributes().getAttributes(Index).getStackAlignment().
getAlign(F, Index, o) ==
    IF F.stackAlign # <<>> THEN F.stackAlign
    ELSE IF ~o.found THEN <<>>
    ELSE AlignOf(o.retval, Index, 1)

\* The loop of lines 327-336 from operand i; operands that are no
\* ConstantInt are passed over.
RECURSIVE CallAlignOf(_, _, _)
CallAlignOf(ops, Index, i) ==
    IF i > Len(ops) THEN <<>>
    ELSE IF ops[i].kind # "ConstantInt" THEN CallAlignOf(ops, Index, i + 1)
    ELSE LET V == ZExtToUnsigned(ops[i].int)
         IN  IF V \div 65536 = Index THEN <<V % 65536>>
             ELSE IF V \div 65536 > Index THEN <<>>
             ELSE CallAlignOf(ops, Index, i + 1)

\* getAlignCall scanning "callalign" the way getAlign scans "align": to the
\* end, without lines 333-334.
getAlignCallWholeList(I, Index) ==
    IF I.stackAlign # <<>> THEN I.stackAlign
    ELSE IF ~I.callalign.exists THEN <<>>
    ELSE LET CIs == SelectSeq(I.callalign.operands,
                              LAMBDA op : op.kind = "ConstantInt")
         IN  AlignOf([k \in 1..Len(CIs) |-> ZExtToUnsigned(CIs[k].int)],
                     Index, 1)

\* getAlign(const CallInst &, unsigned), lines 319-339.  I.callalign is
\* I.getMetadata("callalign").
getAlignCall(I, Index) ==
    IF I.stackAlign # <<>> THEN I.stackAlign
    ELSE IF ~I.callalign.exists THEN <<>>
    ELSE CallAlignOf(I.callalign.operands, Index, 1)

\* shouldEmitPTXNoReturn without the test of isKernelFunction.
shouldEmitPTXNoReturnKernelToo(V, hasNoReturn, o) ==
    IF ~hasNoReturn THEN FALSE
    ELSE V.doesNotReturn /\ V.isVoid

\* Lines 345-362.  hasNoReturn is ST.hasNoReturn(); V is a CallInst or a
\* Function.
shouldEmitPTXNoReturn(V, hasNoReturn, o) ==
    IF ~hasNoReturn THEN FALSE
    ELSE IF V.kind = "CallInst" THEN V.doesNotReturn /\ V.isVoid
    ELSE V.doesNotReturn /\ V.isVoid /\ ~isKernelFunction(V, o)

\* The call of findOne/findAll that predicate fn makes on arguments in:
\* <<function, global value, property>>, or <<>> when it makes none.
FindOf(fn, in) ==
    LET One(name) == IF in.val.kind = "GlobalValue"
                     THEN <<"findOneNVVMAnnotation", in.val.gv, name>>
                     ELSE <<>>
        All(name) == IF in.val.kind = "Argument"
                     THEN <<"findAllNVVMAnnotation", in.val.gv, name>>
                     ELSE <<>>
    IN  CASE fn = "isTexture" -> One("texture")
          [] fn = "isSurface" -> One("surface")
          [] fn = "isSampler" -> IF in.val.kind = "GlobalValue"
                                 THEN One("sampler") ELSE All("sampler")
          [] fn = "isImageReadOnly" -> All("rdoimage")
          [] fn = "isImageWriteOnly" -> All("wroimage")
          [] fn = "isImageReadWrite" -> All("rdwrimage")
          [] fn = "isManaged" -> One("managed")
          [] fn = "isKernelFunction" ->
                <<"findOneNVVMAnnotation", in.F.gv, "kernel">>
          [] fn = "getAlign" ->
                IF in.F.stackAlign # <<>> THEN <<>>
                ELSE <<"findAllNVVMAnnotation", in.F.gv, "align">>
          [] fn = "getAlignCall" -> <<>>
          [] fn = "shouldEmitPTXNoReturn" ->
                IF /\ in.hasNoReturn
                   /\ in.V.kind = "Function"
                   /\ in.V.doesNotReturn /\ in.V.isVoid
                THEN <<"findOneNVVMAnnotation", in.V.gv, "kernel">>
                ELSE <<>>

\* What predicate fn does on arguments in once its find call returned o.
UtilOutcome(fn, in, o, ndebug) ==
    CASE fn = "isTexture" -> isTexture(in.val, o, ndebug)
      [] fn = "isSurface" -> isSurface(in.val, o, ndebug)
      [] fn = "isSampler" -> isSampler(in.val, o, ndebug)
      [] fn = "isImageReadOnly" -> isImageReadOnly(in.val, o)
      [] fn = "isImageWriteOnly" -> isImageWriteOnly(in.val, o)
      [] fn = "isImageReadWrite" -> isImageReadWrite(in.val, o)
      [] fn = "isManaged" -> isManaged(in.val, o, ndebug)
      [] fn = "isKernelFunction" -> Ret(isKernelFunction(in.F, o))
      [] fn = "getAlign" -> Ret(getAlign(in.F, in.Index, o))
      [] fn = "getAlignCall" -> Ret(getAlignCall(in.I, in.Index))
      [] fn = "shouldEmitPTXNoReturn" ->
            Ret(shouldEmitPTXNoReturn(in.V, in.hasNoReturn, o))

\* The predicate ends: it returns ("done") or an assertion fails.
UtilEnd(t, fn, in, o) ==
    LET r == UtilOutcome(fn, in, o, NDEBUG)
    IN  /\ pc' = [pc EXCEPT ![t] = IF r.abort THEN "abort" ELSE "done"]
        /\ util' = [util EXCEPT ![t] = [fn |-> fn, in |-> in, res |-> r.val]]

\* A thread calls a predicate: on to its find call, or to its end when it
\* makes none.
CallUtil(t, fn, in) ==
    /\ pc[t] = "idle"
    /\ LET f == FindOf(fn, in)
       IN  IF f = <<>>
           THEN /\ UtilEnd(t, fn, in, NoOut)
                /\ UNCHANGED <<arg, obs>>
           ELSE /\ pc' = [pc EXCEPT ![t] = "find"]
                /\ util' = [util EXCEPT ![t] = [fn |-> fn, in |-> in,
                                                res |-> <<>>]]
                /\ arg' = [arg EXCEPT ![t] = [fn |-> f[1], Mod |-> getParent(f[2]),
                                              gv |-> f[2], prop |-> f[3]]]
                /\ obs' = [obs EXCEPT ![t].hit = f[2] \in queried]
    /\ UNCHANGED <<NMD, Cache, Lock, scan, out, queried, cleared, NDEBUG>>

\* The find call of the predicate has returned: the rest of the predicate.
UtilReturn(t) ==
    /\ pc[t] = "ret"
    /\ util[t].fn # NoValue
    /\ UtilEnd(t, util[t].fn, util[t].in, out[t])
    /\ UNCHANGED <<NMD, Cache, Lock, arg, scan, out, obs, queried, cleared,
                   NDEBUG>>

\* The caller of the predicate goes on.
UtilDone(t) ==
    /\ pc[t] = "done"
    /\ pc' = [pc EXCEPT ![t] = "idle"]
    /\ util' = [util EXCEPT ![t] = NoUtil]
    /\ arg' = [arg EXCEPT ![t] = NoArg]
    /\ out' = [out EXCEPT ![t] = NoOut]
    /\ obs' = [obs EXCEPT ![t] = NoObs]
    /\ UNCHANGED <<NMD, Cache, Lock, scan, queried, cleared, NDEBUG>>

(***************************************************************************)
(* One thread calling the derived predicates on function g1, its           *)
(* parameters and its call sites, over a module whose list is fixed.       *)
(***************************************************************************)
UtilFns == {"isTexture", "isSurface", "isSampler", "isImageReadOnly",
            "isImageWriteOnly", "isImageReadWrite", "isManaged",
            "isKernelFunction", "getAlign", "getAlignCall",
            "shouldEmitPTXNoReturn"}

\* Bounds: MDNodes in the nvvm.annotations list, operands of a "callalign"
\* MDNode.
MaxUtilRecs == 2
MaxCallAlign == 2

\* The sequences over S of length at most n.
RECURSIVE SeqsUpTo(_, _)
SeqsUpTo(S, n) ==
    IF n = 0 THEN {<<>>}
    ELSE LET shorter == SeqsUpTo(S, n - 1)
         IN  shorter \cup {Append(q, x) : q \in {y \in shorter : Len(y) = n - 1},
                                           x \in S}

\* The name/value pairs of the properties the predicates ask for; "align"
\* packs parameter index 1 with 8 or 4, and index 2 with 4.
UtilPairs ==
    {<<"kernel", 0>>, <<"kernel", 1>>, <<"texture", 1>>, <<"texture", 2>>,
     <<"surface", 1>>, <<"surface", 2>>, <<"sampler", 0>>, <<"sampler", 1>>,
     <<"managed", 1>>, <<"managed", 2>>, <<"rdoimage", 0>>, <<"wroimage", 1>>,
     <<"rdwrimage", 0>>, <<"align", 1 * 65536 + 8>>, <<"align", 1 * 65536 + 4>>,
     <<"align", 2 * 65536 + 4>>}

\* The MDNodes of g1: one pair each, no pair, two pairs, or one of the three
\* forms the reader's assertions reject (lines 59, 65, 69).
UtilNodes ==
    {<<GlobalValueMD("g1"), MDString(p[1]), ConstantInt(p[2])>> : p \in UtilPairs}
        \cup {<<GlobalValueMD("g1")>>,
              <<GlobalValueMD("g1"), MDString("kernel"), ConstantInt(1),
                MDString("align"), ConstantInt(1 * 65536 + 8)>>,
              <<GlobalValueMD("g1"), MDString("kernel")>>,
              <<GlobalValueMD("g1"), ConstantInt(1), ConstantInt(1)>>,
              <<GlobalValueMD("g1"), MDString("kernel"), MDString("kernel")>>}

\* The arguments of the predicates.
UtilInputs(fn) ==
    CASE fn \in {"isTexture", "isSurface", "isSampler", "isImageReadOnly",
                 "isImageWriteOnly", "isImageReadWrite", "isManaged"} ->
            {[val |-> v] : v \in {GlobalVar("g1"), Argument("g1", 0),
                                  Argument("g1", 1)}}
      [] fn = "isKernelFunction" ->
            {[F |-> [gv |-> "g1", cc |-> c]] : c \in {"PTX_Kernel", "C"}}
      [] fn = "getAlign" ->
            {[F |-> [gv |-> "g1", stackAlign |-> a], Index |-> i] :
                a \in {<<>>, <<16>>}, i \in {1, 2}}
      [] fn = "getAlignCall" ->
            {[I |-> [stackAlign |-> a, callalign |-> c], Index |-> i] :
                a \in {<<>>, <<16>>}, i \in {1, 2},
                c \in {[exists |-> FALSE, operands |-> <<>>]} \cup
                      {[exists |-> TRUE, operands |-> ops] :
                          ops \in SeqsUpTo({ConstantInt(1 * 65536 + 4),
                                            ConstantInt(2 * 65536 + 8),
                                            MDString("callalign")},
                                           MaxCallAlign)}}
      [] fn = "shouldEmitPTXNoReturn" ->
            {[V |-> [kind |-> k, gv |-> "g1", cc |-> c, doesNotReturn |-> n,
                     isVoid |-> v],
              hasNoReturn |-> h] :
                k \in {"CallInst", "Function"}, c \in {"PTX_Kernel", "C"},
                n \in BOOLEAN, v \in BOOLEAN, h \in BOOLEAN}

InitUtil ==
    /\ \E ops \in SeqsUpTo(UtilNodes, MaxUtilRecs) :
          NMD = [m \in Modules |->
                    IF m = "m1" /\ ops # <<>>
                    THEN [exists |-> TRUE, operands |-> ops]
                    ELSE NoNMD]
    /\ InitCache

NextUtil ==
    \/ \E fn \in UtilFns : \E in \in UtilInputs(fn) : CallUtil("t1", fn, in)
    \/ FindEnter("t1")
    \/ PopulateEnter("t1")
    \/ ReadRecord("t1")
    \/ UtilReturn("t1")
    \/ UtilDone("t1")

SpecUtil == InitUtil /\ [][NextUtil]_vars

(***************************************************************************)
(* What the annotation list says, read off the list itself.                *)
(***************************************************************************)
\* A record as the front end writes it: a subject, then names and values
\* in turn.
WellFormed(md) ==
    /\ Len(md) % 2 = 1
    /\ \A j \in 1..NumPairs(md) :
          md[2 * j].kind = "MDString" /\ md[2 * j + 1].kind = "ConstantInt"

\* The records of gv in the list are such records.
RecordsWellFormed(ops, gv) ==
    \A i \in 1..Len(ops) : ops[i][1] = GlobalValueMD(gv) => WellFormed(ops[i])

\* The name/value pairs of one record, in order.
RecordPairs(md) == [j \in 1..NumPairs(md) |-> <<md[2 * j].str, md[2 * j + 1].int>>]

\* The values a sequence of name/value pairs gives name prop, in order.
ValuesOf(pairs, prop) ==
    LET sel == SelectSeq(pairs, LAMBDA pr : pr[1] = prop)
    IN  [k \in 1..Len(sel) |-> sel[k][2]]

\* The pairs of the records whose subject is gv: record order, then order
\* within the record.
RECURSIVE PairsOfSubject(_, _)
PairsOfSubject(ops, gv) ==
    IF ops = <<>> THEN <<>>
    ELSE (IF Head(ops)[1] = GlobalValueMD(gv) THEN RecordPairs(Head(ops)) ELSE <<>>)
            \o PairsOfSubject(Tail(ops), gv)

AnnotationValues(ops, gv, prop) == ValuesOf(PairsOfSubject(ops, gv), prop)

\* The Property Map the list gives gv.
AnnotationMap(ops, gv) ==
    LET pairs == PairsOfSubject(ops, gv)
    IN  [p \in {pairs[k][1] : k \in 1..Len(pairs)} |-> ValuesOf(pairs, p)]

\* The list without the records whose subject is null.
WithoutNullSubjects(ops) == SelectSeq(ops, LAMBDA md : md[1] # NullMD)

\* Output o of find function fn is what the value sequence vals asks for:
\* absent (false, nothing written) when vals is empty, else the first value
\* (findOne) or all of them (findAll).
Returns(o, fn, vals) ==
    IF vals = <<>> THEN ~o.found /\ ~o.written
    ELSE /\ o.found
         /\ o.written
         /\ o.retval = IF fn = "findOneNVVMAnnotation" THEN <<vals[1]>> ELSE vals

\* Thread t has returned from a findOne/findAll call.
Returned(t) == pc[t] = "ret" /\ arg[t].fn \in FindFns

(***************************************************************************)
(* C1.  A find call that meets no cache entry of (module, entity) returns  *)
(* the values that the records of that entity pair with the property, in   *)
(* record order and then in the order within the record: findAll all of    *)
(* them, findOne the first; both return absent exactly when there is none. *)
(***************************************************************************)
C1_FreshLookupReturnsRecordedValues ==
    \A t \in Threads :
        (/\ Returned(t) /\ obs[t].uncached
         /\ RecordsWellFormed(NMD[arg[t].Mod].operands, arg[t].gv)) =>
            Returns(out[t], arg[t].fn,
                    AnnotationValues(NMD[arg[t].Mod].operands, arg[t].gv, arg[t].prop))

\* A findAll over two records of the entity has returned [4, 8].
C1_Witness ==
    \E t \in Threads :
        /\ Returned(t) /\ obs[t].uncached
        /\ arg[t].fn = "findAllNVVMAnnotation"
        /\ NMD[arg[t].Mod].operands =
              << <<GlobalValueMD(arg[t].gv), MDString("maxntidx"), ConstantInt(4)>>,
                 <<GlobalValueMD(arg[t].gv), MDString("maxntidx"), ConstantInt(8)>> >>
        /\ out[t] = [found |-> TRUE, written |-> TRUE, retval |-> <<4, 8>>]

(***************************************************************************)
(* C2.  Once a find for an entity has returned and no clear of its module  *)
(* has erased since, a find for that entity, whatever the property, runs   *)
(* no scan, and a call repeated with the same function, entity and         *)
(* property returns what it returned before.                               *)
(***************************************************************************)
C2_RepeatedLookupIsServedFromCache ==
    \A t \in Threads :
        Returned(t) =>
            /\ obs[t].hit => ~obs[t].scanned
            /\ obs[t].repeat => ~obs[t].scanned /\ out[t] = obs[t].prev

\* A repeated call has returned a value again while the other thread is in
\* a call of its own.
C2_Witness ==
    \E t \in Threads :
        /\ Returned(t)
        /\ obs[t].hit /\ obs[t].repeat
        /\ out[t].found
        /\ \E u \in Threads \ {t} : pc[u] # "idle"

(***************************************************************************)
(* C3.  After a clear of a module has erased the entries of its entities,  *)
(* the next find for such an entity scans the module's list again and      *)
(* returns what the list says when it is scanned.                          *)
(***************************************************************************)
C3_LookupAfterClearScansAfresh ==
    \A t \in Threads :
        Returned(t) /\ obs[t].afterClear =>
            /\ obs[t].scanned
            /\ RecordsWellFormed(NMD[arg[t].Mod].operands, arg[t].gv) =>
                  Returns(out[t], arg[t].fn,
                          AnnotationValues(NMD[arg[t].Mod].operands,
                                           arg[t].gv, arg[t].prop))

\* The find after the clear has returned a value of a list of two records.
C3_Witness ==
    \E t \in Threads :
        /\ Returned(t) /\ obs[t].afterClear
        /\ out[t].found
        /\ Len(NMD[arg[t].Mod].operands) = 2

(***************************************************************************)
(* C4.  No two threads are at the same time between the lock_guard and the *)
(* return of clearAnnotationCache or of cacheAnnotationFromMD(m, gv): a    *)
(* thread that erases and a thread that populates never overlap, and the   *)
(* one that is inside holds the lock.                                      *)
(***************************************************************************)
Populating(t) == pc[t] \in {"populate", "reader"}
Erasing(t) == pc[t] = "erase"

C4_ClearAndPopulateExclude ==
    \A t \in Threads :
        Populating(t) \/ Erasing(t) =>
            /\ Lock.owner = t
            /\ \A u \in Threads \ {t} : ~Populating(u) /\ ~Erasing(u)

\* A thread is reading a record of m1 while the other is at the lock_guard
\* of a clear of m1.
C4_Witness ==
    \E t, u \in Threads :
        /\ pc[t] = "reader"
        /\ pc[u] = "clear"
        /\ arg[u].Mod = arg[t].Mod

(***************************************************************************)
(* C5.  Under fair scheduling every call of clearAnnotationCache, findOne  *)
(* and findAll returns, also when it locks again in                        *)
(* cacheAnnotationFromMD(m, gv) and in the reader the lock its thread      *)
(* holds; a thread that has returned, or is in no call, does not hold the  *)
(* lock.                                                                   *)
(***************************************************************************)
InCall(t) == pc[t] \in {"find", "populate", "reader", "clear", "erase"}

C5_EveryCallReturnsUnlocked ==
    /\ \A t \in Threads : InCall(t) ~> pc[t] = "ret"
    /\ [](\A t \in Threads : pc[t] \in {"ret", "idle"} => Lock.owner # t)

\* A find that went through both inner lock_guards has returned a value
\* and the lock is free.
C5_Witness ==
    \E t \in Threads :
        /\ Returned(t)
        /\ obs[t].scanned
        /\ out[t].found
        /\ Lock = Unlocked

(***************************************************************************)
(* C6.  Every entry of the cache holds a non-empty Property Map.           *)
(***************************************************************************)
C6_NoEmptyPropertyMapStored ==
    \A m \in DOMAIN Cache : \A gv \in DOMAIN Cache[m] : Cache[m][gv] # EmptyMap

(***************************************************************************)
(* C7.  Every find for an entity that no record of its module's list names *)
(* scans the list.                                                         *)
(***************************************************************************)
NoRecordOf(ops, gv) == \A i \in 1..Len(ops) : ops[i][1] # GlobalValueMD(gv)

C7_UnannotatedEntityIsRescanned ==
    \A t \in Threads :
        Returned(t) /\ NoRecordOf(NMD[arg[t].Mod].operands, arg[t].gv) =>
            obs[t].scanned

(***************************************************************************)
(* C8.  The erase of clearAnnotationCache(Mod) leaves no entry of Mod in   *)
(* the cache and every entry of every other module as it was; when Mod has *)
(* no entry the cache stays as it was; and the call, once it holds the     *)
(* lock, can always erase and return.                                      *)
(***************************************************************************)
EraseStep(t) == pc[t] = "erase" /\ pc'[t] = "ret"

C8_ClearErasesOnlyItsModule ==
    /\ [][\A t \in Threads :
            EraseStep(t) =>
                /\ arg[t].Mod \notin DOMAIN Cache'
                /\ DOMAIN Cache' = (DOMAIN Cache) \ {arg[t].Mod}
                /\ \A m \in DOMAIN Cache' : Cache'[m] = Cache[m]
                /\ arg[t].Mod \notin DOMAIN Cache => Cache' = Cache]_vars
    /\ [](\A t \in Threads : pc[t] = "erase" => ENABLED ClearErase(t))

\* A clear of m1 has erased entries while m2 keeps an entry with a value.
C8_Witness ==
    \E t \in Threads :
        /\ pc[t] = "ret"
        /\ arg[t] = [fn |-> "clearAnnotationCache", Mod |-> "m1",
                     gv |-> NoValue, prop |-> NoValue]
        /\ "g1" \in cleared
        /\ "m1" \notin DOMAIN Cache
        /\ "m2" \in DOMAIN Cache
        /\ "g3" \in DOMAIN Cache["m2"]
        /\ Cache["m2"]["g3"] # EmptyMap

(***************************************************************************)
(* C9.  A find returns absent, writes nothing to its output and fails no   *)
(* assertion when the module has no nvvm.annotations, when no record names *)
(* the entity, and when the records of the entity do not have the          *)
(* property.                                                               *)
(***************************************************************************)
NoSuchAnnotation(nmd, gv, prop) ==
    \/ ~nmd.exists
    \/ NoRecordOf(nmd.operands, gv)
    \/ \A i \in 1..Len(nmd.operands) :
          nmd.operands[i][1] = GlobalValueMD(gv) =>
              /\ WellFormed(nmd.operands[i])
              /\ \A j \in 1..NumPairs(nmd.operands[i]) :
                    nmd.operands[i][2 * j].str # prop

C9_MissingAnnotationIsAbsent ==
    \A t \in Threads :
        arg[t].fn \in FindFns
            /\ NoSuchAnnotation(NMD[arg[t].Mod], arg[t].gv, arg[t].prop) =>
                /\ pc[t] \notin {"abort", "crash"}
                /\ Returned(t) =>
                      ~out[t].found /\ ~out[t].written /\ out[t].retval = <<>>

\* A find for "kernel" has returned absent for an entity whose one record
\* has "maxntidx" only, next to a record of another entity that has
\* "kernel".
C9_Witness ==
    \E t \in Threads :
        /\ Returned(t)
        /\ arg[t].gv = "g1" /\ arg[t].prop = "kernel"
        /\ NMD["m1"].operands =
              << <<GlobalValueMD("g2"), MDString("kernel"), ConstantInt(1)>>,
                 <<GlobalValueMD("g1"), MDString("maxntidx"), ConstantInt(4)>> >>
        /\ ~out[t].found

(***************************************************************************)
(* C10.  A scan passes over the records whose subject is null without      *)
(* failing an assertion: the Property Map it stores, and the result of the *)
(* find, are those of the list without these records.                      *)
(***************************************************************************)
C10_NullSubjectRecordsAreSkipped ==
    \A t \in Threads :
        /\ pc[t] \in {"reader", "abort", "crash"} =>
              NMD[arg[t].Mod].operands[scan[t].i][1] = GlobalValueMD(arg[t].gv)
        /\ (/\ Returned(t) /\ obs[t].scanned
            /\ RecordsWellFormed(NMD[arg[t].Mod].operands, arg[t].gv)) =>
              LET ops == WithoutNullSubjects(NMD[arg[t].Mod].operands)
              IN  /\ Cache[arg[t].Mod][arg[t].gv] = AnnotationMap(ops, arg[t].gv)
                  /\ Returns(out[t], arg[t].fn,
                             AnnotationValues(ops, arg[t].gv, arg[t].prop))

\* A scan over a null-subject record that the reader would reject, followed
\* by the entity's own record, has returned 4.
C10_Witness ==
    \E t \in Threads :
        /\ Returned(t) /\ obs[t].scanned
        /\ arg[t].fn = "findAllNVVMAnnotation"
        /\ NMD[arg[t].Mod].operands =
              << <<NullMD, MDString("kernel")>>,
                 <<GlobalValueMD(arg[t].gv), MDString("maxntidx"), ConstantInt(4)>> >>
        /\ out[t] = [found |-> TRUE, written |-> TRUE, retval |-> <<4>>]

(***************************************************************************)
(* C11.  Every name of a Property Map, stored in the cache or being        *)
(* accumulated by a scan, has at least one value: the read of element 0 at *)
(* line 127 is never on an empty vector.                                   *)
(***************************************************************************)
C11_PropertyHasAtLeastOneValue ==
    /\ \A m \in DOMAIN Cache : \A gv \in DOMAIN Cache[m] :
          \A p \in DOMAIN Cache[m][gv] : Len(Cache[m][gv][p]) >= 1
    /\ \A t \in Threads :
          \A p \in DOMAIN scan[t].tmp : Len(scan[t].tmp[p]) >= 1

\* A findOne has returned the first of the two values the cache holds for
\* the property.
C11_Witness ==
    \E t \in Threads :
        /\ Returned(t)
        /\ arg[t].fn = "findOneNVVMAnnotation"
        /\ arg[t].prop \in DOMAIN Cache[arg[t].Mod][arg[t].gv]
        /\ Cache[arg[t].Mod][arg[t].gv][arg[t].prop] = <<8, 4>>
        /\ out[t].retval = <<8>>

(***************************************************************************)
(* The derived predicates against the list of the module.                  *)
(***************************************************************************)
\* Thread t has returned from predicate fn.
UtilFinished(t, fn) == pc[t] = "done" /\ util[t].fn = fn

\* The list of the module of g, and whether the reader accepts g's records.
ListOf(g) == NMD[getParent(g)].operands
ListWellFormed(g) == RecordsWellFormed(ListOf(g), g)

(***************************************************************************)
(* C12.  isKernelFunction(F) of a function without a "kernel" annotation   *)
(* is true exactly when F's calling convention is PTX_Kernel; of a         *)
(* function with one, it is true exactly when the first recorded value is  *)
(* 1, whatever the calling convention.                                     *)
(***************************************************************************)
C12_KernelByAnnotationElseConvention ==
    \A t \in Threads :
        UtilFinished(t, "isKernelFunction") /\ ListWellFormed(util[t].in.F.gv) =>
            LET F == util[t].in.F
                vals == AnnotationValues(ListOf(F.gv), F.gv, "kernel")
            IN  util[t].res = << IF vals = <<>> THEN F.cc = "PTX_Kernel"
                                 ELSE vals[1] = 1 >>

\* A function of calling convention PTX_Kernel whose first "kernel" value
\* is 0 has been reported not to be a kernel.
C12_Witness ==
    \E t \in Threads :
        /\ UtilFinished(t, "isKernelFunction")
        /\ util[t].in.F.cc = "PTX_Kernel"
        /\ ListOf("g1") = << <<GlobalValueMD("g1"), MDString("kernel"), ConstantInt(0)>>,
                             <<GlobalValueMD("g1"), MDString("kernel"), ConstantInt(1)>> >>
        /\ util[t].res = <<FALSE>>

(***************************************************************************)
(* C13.  getAlign(F, Index) returns the stack alignment of the attribute   *)
(* set of Index whenever that is set, whatever "align" annotations F has;  *)
(* with the attribute unset it returns V & 0xFFFF of the first "align"     *)
(* value V with V >> 16 = Index, and no alignment when there is no such V. *)
(***************************************************************************)
C13_AttributeBeforeLegacyAlign ==
    \A t \in Threads :
        UtilFinished(t, "getAlign") =>
            LET F == util[t].in.F
                Index == util[t].in.Index
            IN  /\ F.stackAlign # <<>> => util[t].res = <<F.stackAlign>>
                /\ F.stackAlign = <<>> /\ ListWellFormed(F.gv) =>
                      LET Vs == AnnotationValues(ListOf(F.gv), F.gv, "align")
                          hits == SelectSeq(Vs, LAMBDA V : V \div 65536 = Index)
                      IN  util[t].res = << IF hits = <<>> THEN <<>>
                                           ELSE <<hits[1] % 65536>> >>

\* Parameter 1 with attribute 16 and the legacy value (1 << 16 | 8) has
\* resolved to 16.
C13_Witness ==
    \E t \in Threads :
        /\ UtilFinished(t, "getAlign")
        /\ util[t].in.Index = 1
        /\ util[t].in.F.stackAlign = <<16>>
        /\ ListOf("g1") = << <<GlobalValueMD("g1"), MDString("align"),
                               ConstantInt(1 * 65536 + 8)>> >>
        /\ util[t].res = << <<16>> >>

(***************************************************************************)
(* C16.  shouldEmitPTXNoReturn(V, TM) is false when the subtarget has no   *)
(* noreturn; otherwise, of a call it is true exactly when the call does    *)
(* not return and its return type is void, and of a function exactly when  *)
(* the function does not return, its return type is void and it is no      *)
(* kernel function.                                                        *)
(***************************************************************************)
C16_NoReturnEmission ==
    \A t \in Threads :
        UtilFinished(t, "shouldEmitPTXNoReturn") =>
            LET V == util[t].in.V
                vals == AnnotationValues(ListOf(V.gv), V.gv, "kernel")
                isKernel == IF vals = <<>> THEN V.cc = "PTX_Kernel" ELSE vals[1] = 1
            IN  /\ ~util[t].in.hasNoReturn => util[t].res = <<FALSE>>
                /\ util[t].in.hasNoReturn /\ V.kind = "CallInst" =>
                      util[t].res = <<V.doesNotReturn /\ V.isVoid>>
                /\ util[t].in.hasNoReturn /\ V.kind = "Function" =>
                      IF V.doesNotReturn /\ V.isVoid
                      THEN ListWellFormed(V.gv) => util[t].res = <<~isKernel>>
                      ELSE util[t].res = <<FALSE>>

\* A void function that does not return and that a "kernel" annotation of
\* value 1 makes a kernel has been refused, on a subtarget with noreturn.
C16_Witness ==
    \E t \in Threads :
        /\ UtilFinished(t, "shouldEmitPTXNoReturn")
        /\ util[t].in.hasNoReturn
        /\ util[t].in.V.kind = "Function"
        /\ util[t].in.V.cc = "C"
        /\ util[t].in.V.doesNotReturn /\ util[t].in.V.isVoid
        /\ ListOf("g1") = << <<GlobalValueMD("g1"), MDString("kernel"), ConstantInt(1)>> >>
        /\ util[t].res = <<FALSE>>

(***************************************************************************)
(* C17.  With the stack-alignment attribute unset, getAlign of a call      *)
(* walks the "callalign" operands in order and returns no alignment as     *)
(* soon as it meets a value V with V >> 16 greater than Index, also when a *)
(* later value has V >> 16 = Index; getAlign of a function goes through    *)
(* all "align" values, in whatever order they are, and returns the         *)
(* alignment of the first with V >> 16 = Index.                            *)
(***************************************************************************)
C17_CallAlignStopsEarlyAlignDoesNot ==
    \A t \in Threads :
        /\ UtilFinished(t, "getAlignCall") /\ util[t].in.I.stackAlign = <<>> =>
              LET Index == util[t].in.Index
                  CIs == SelectSeq(util[t].in.I.callalign.operands,
                                   LAMBDA op : op.kind = "ConstantInt")
                  reached == SelectSeq(CIs, LAMBDA op : op.int \div 65536 >= Index)
              IN  util[t].res = << IF reached = <<>> THEN <<>>
                                   ELSE IF reached[1].int \div 65536 > Index THEN <<>>
                                   ELSE <<reached[1].int % 65536>> >>
        /\ ( /\ UtilFinished(t, "getAlign")
             /\ util[t].in.F.stackAlign = <<>>
             /\ ListWellFormed(util[t].in.F.gv) ) =>
              LET Index == util[t].in.Index
                  Vs == AnnotationValues(ListOf(util[t].in.F.gv), util[t].in.F.gv, "align")
              IN  IF \E k \in 1..Len(Vs) : Vs[k] \div 65536 = Index
                  THEN LET k == CHOOSE k \in 1..Len(Vs) :
                                   /\ Vs[k] \div 65536 = Index
                                   /\ \A j \in 1..(k - 1) : Vs[j] \div 65536 # Index
                       IN  util[t].res = << <<Vs[k] % 65536>> >>
                  ELSE util[t].res = << <<>> >>

\* A call whose "callalign" is (2 << 16 | 8), (1 << 16 | 4) has got no
\* alignment for parameter 1.
C17_Witness ==
    \E t \in Threads :
        /\ UtilFinished(t, "getAlignCall")
        /\ util[t].in.I.stackAlign = <<>>
        /\ util[t].in.Index = 1
        /\ util[t].in.I.callalign.operands =
              <<ConstantInt(2 * 65536 + 8), ConstantInt(1 * 65536 + 4)>>
        /\ util[t].res = << <<>> >>

\* A function whose "align" values are (2 << 16 | 4), (1 << 16 | 8) has got
\* alignment 8 for parameter 1.
C17_WitnessFunction ==
    \E t \in Threads :
        /\ UtilFinished(t, "getAlign")
        /\ util[t].in.F.stackAlign = <<>>
        /\ util[t].in.Index = 1
        /\ ListWellFormed("g1")
        /\ AnnotationValues(ListOf("g1"), "g1", "align") = <<2 * 65536 + 4, 1 * 65536 + 8>>
        /\ util[t].res = << <<8>> >>

(***************************************************************************)
(* The boolean predicates: the property each asks for, and the values the  *)
(* list gives that property for the global value asked about (the function *)
(* when the value is one of its arguments).                                *)
(***************************************************************************)
BoolFns == {"isTexture", "isSurface", "isSampler", "isManaged",
            "isImageReadOnly", "isImageWriteOnly", "isImageReadWrite"}

PropOf(fn) ==
    CASE fn = "isTexture" -> "texture"
      [] fn = "isSurface" -> "surface"
      [] fn = "isSampler" -> "sampler"
      [] fn = "isManaged" -> "managed"
      [] fn = "isImageReadOnly" -> "rdoimage"
      [] fn = "isImageWriteOnly" -> "wroimage"
      [] fn = "isImageReadWrite" -> "rdwrimage"

Recorded(t) == AnnotationValues(ListOf(util[t].in.val.gv), util[t].in.val.gv,
                                PropOf(util[t].fn))

\* The predicate of thread t asserts annot == 1: the four that take a
\* global value.
AssertsOne(t) ==
    /\ util[t].fn \in {"isTexture", "isSurface", "isSampler", "isManaged"}
    /\ util[t].in.val.kind = "GlobalValue"

\* The predicate of thread t looks for the argument number among the
\* values recorded for the function.
SearchesArgNo(t) ==
    /\ util[t].fn \in {"isSampler", "isImageReadOnly", "isImageWriteOnly",
                       "isImageReadWrite"}
    /\ util[t].in.val.kind = "Argument"

\* Thread t is in a boolean predicate that asks for an annotation, on a
\* list whose records the reader accepts.
InBoolFn(t) ==
    /\ util[t].fn \in BoolFns
    /\ AssertsOne(t) \/ SearchesArgNo(t)
    /\ ListWellFormed(util[t].in.val.gv)

(***************************************************************************)
(* C14 as stated.  Each of isTexture, isSurface, isSampler, isManaged,     *)
(* isImageReadOnly, isImageWriteOnly, isImageReadWrite that asks for its   *)
(* annotation returns false when the annotation is absent and true when    *)
(* the recorded value is 1, and does not return when the recorded value is *)
(* anything else.                                                          *)
(***************************************************************************)
C14_EveryPredicateAssertsOne ==
    \A t \in Threads :
        InBoolFn(t) /\ pc[t] = "done" =>
            IF Recorded(t) = <<>> THEN util[t].res = <<FALSE>>
            ELSE Recorded(t)[1] = 1 /\ util[t].res = <<TRUE>>

(***************************************************************************)
(* C14, amended.  isTexture, isSurface, isManaged, and isSampler of a      *)
(* global value, return false when the annotation is absent and true when  *)
(* its first value is 1; when it is another value the assertion fails in a *)
(* build with assertions, and the predicate returns true in a build        *)
(* without.  isImageReadOnly, isImageWriteOnly, isImageReadWrite, and      *)
(* isSampler of an argument, assert nothing about the values: they return  *)
(* true exactly when the argument's number is among the values recorded    *)
(* for the function.                                                       *)
(***************************************************************************)
C14_GlobalsAssertOneArgumentsAreListed ==
    \A t \in Threads :
        /\ InBoolFn(t) /\ AssertsOne(t) =>
              /\ pc[t] = "done" =>
                    IF Recorded(t) = <<>> THEN util[t].res = <<FALSE>>
                    ELSE /\ util[t].res = <<TRUE>>
                         /\ Recorded(t)[1] = 1 \/ NDEBUG
              /\ pc[t] = "abort" =>
                    Recorded(t) # <<>> /\ Recorded(t)[1] # 1 /\ ~NDEBUG
        /\ InBoolFn(t) /\ SearchesArgNo(t) =>
              /\ pc[t] # "abort"
              /\ pc[t] = "done" =>
                    util[t].res = << \E k \in 1..Len(Recorded(t)) :
                                        Recorded(t)[k] = util[t].in.val.argNo >>

\* isTexture of a global value whose "texture" value is 2 has failed its
\* assertion.
C14_Witness ==
    \E t \in Threads :
        /\ InBoolFn(t)
        /\ util[t].fn = "isTexture"
        /\ Recorded(t) = <<2>>
        /\ pc[t] = "abort"

\* isImageReadOnly of argument 0 has returned true on the recorded value 0.
C14_WitnessImage ==
    \E t \in Threads :
        /\ InBoolFn(t)
        /\ util[t].fn = "isImageReadOnly"
        /\ util[t].in.val.argNo = 0
        /\ Recorded(t) = <<0>>
        /\ pc[t] = "done"
        /\ util[t].res = <<TRUE>>

(***************************************************************************)
(* The reader on one record: the record it is at, the fragment it has      *)
(* after the step (tmp, or what was stored of tmp when the record was the  *)
(* last of the global value), and the number of values of a fragment.      *)
(***************************************************************************)
RecordAt(t) == NMD[arg[t].Mod].operands[scan[t].i]

FragmentAfter(t) ==
    IF pc'[t] = "reader" THEN scan'[t].tmp ELSE Cache'[arg[t].Mod][arg[t].gv]

RECURSIVE TotalValues(_)
TotalValues(kv) ==
    IF DOMAIN kv = {} THEN 0
    ELSE LET p == CHOOSE q \in DOMAIN kv : TRUE
         IN  Len(kv[p]) + TotalValues([q \in DOMAIN kv \ {p} |-> kv[q]])

\* The step of the reader on a well-formed record: no assertion fails, and
\* each name of the record gets the record's values for it appended, in
\* order, which makes (N - 1) / 2 values.
ReadsWellFormed(t) ==
    LET md == RecordAt(t)
        old == scan[t].tmp
        new == FragmentAfter(t)
        names == {md[2 * j].str : j \in 1..NumPairs(md)}
    IN  /\ pc'[t] \in {"reader", "ret"}
        /\ DOMAIN new = DOMAIN old \cup names
        /\ \A p \in DOMAIN new :
              new[p] = (IF p \in DOMAIN old THEN old[p] ELSE <<>>)
                          \o ValuesOf(RecordPairs(md), p)
        /\ TotalValues(new) = TotalValues(old) + NumPairs(md)

(***************************************************************************)
(* C15 as stated.  The reader on a record with an even number of elements, *)
(* or with a name that is no string or a value that is no integer          *)
(* constant, ends in an error state and produces no fragment; on a         *)
(* well-formed record of N elements it fails no assertion and appends      *)
(* exactly (N - 1) / 2 values.                                             *)
(***************************************************************************)
C15_MalformedRecordAlwaysFails ==
    [][\A t \in Threads :
          pc[t] = "reader" =>
              IF WellFormed(RecordAt(t)) THEN ReadsWellFormed(t)
              ELSE pc'[t] \in {"abort", "crash"} /\ Cache' = Cache /\ scan' = scan]_vars

(***************************************************************************)
(* C15, amended.  In a build with assertions the reader on a record with   *)
(* an even number of elements, or with a name that is no string or a value *)
(* that is no integer constant, fails an assertion and produces no         *)
(* fragment; in every build the reader on a well-formed record of N        *)
(* elements fails no assertion and appends exactly (N - 1) / 2 values.     *)
(***************************************************************************)
C15_MalformedRecordFailsWithAssertions ==
    [][\A t \in Threads :
          pc[t] = "reader" =>
              IF WellFormed(RecordAt(t)) THEN ReadsWellFormed(t)
              ELSE ~NDEBUG =>
                      pc'[t] = "abort" /\ Cache' = Cache /\ scan' = scan]_vars

\* The reader has failed an assertion on a record whose name is an integer
\* constant, after it read a record of two pairs.
C15_Witness ==
    \E t \in Threads :
        /\ pc[t] = "abort"
        /\ ~NDEBUG
        /\ scan[t] # NoScan
        /\ scan[t].i = 2
        /\ NMD[arg[t].Mod].operands =
              << <<GlobalValueMD("g1"), MDString("kernel"), ConstantInt(1),
                   MDString("align"), ConstantInt(1 * 65536 + 8)>>,
                 <<GlobalValueMD("g1"), ConstantInt(1), ConstantInt(1)>> >>
        /\ scan[t].tmp = ("kernel" :> <<1>>) @@ ("align" :> <<1 * 65536 + 8>>)

(***************************************************************************)
(* C18.  Whatever the interleaving of the threads, a global value that has *)
(* a record is scanned at most once between two clears of its module: a    *)
(* thread starts a scan for it only when no find for it has returned since *)
(* the last clear and no other thread is scanning for it, so of the        *)
(* threads that ask for it at the same time one scans and stores; and each *)
(* find returns what the list says, as it would with one thread.           *)
(***************************************************************************)
StartsScan(t) == pc[t] = "find" /\ pc'[t] = "populate"

C18_OneScanPerEntityBetweenClears ==
    /\ [][\A t \in Threads :
             StartsScan(t) /\ ~NoRecordOf(NMD[arg[t].Mod].operands, arg[t].gv) =>
                 /\ arg[t].gv \notin queried
                 /\ ~IsCached(Cache, arg[t].Mod, arg[t].gv)
                 /\ \A u \in Threads \ {t} :
                       ~(Populating(u) /\ arg[u].gv = arg[t].gv)]_vars
    /\ [](\A t \in Threads :
             Returned(t) =>
                 Returns(out[t], arg[t].fn,
                         AnnotationValues(NMD[arg[t].Mod].operands,
                                          arg[t].gv, arg[t].prop)))

\* Two threads asked for g1 before any find for it had returned; one has
\* scanned, the other has not, and both have returned a value.
C18_Witness ==
    \E t, u \in Threads :
        /\ t # u
        /\ Returned(t) /\ Returned(u)
        /\ arg[t].gv = "g1" /\ arg[u].gv = "g1"
        /\ ~obs[t].hit /\ ~obs[u].hit
        /\ obs[t].scanned /\ ~obs[u].scanned
        /\ out[t].found /\ out[u].found

(***************************************************************************)
(* C19.  Once a find for a global value has returned, records added to the *)
(* list of its module afterwards do not show in later finds for it: a      *)
(* later find runs no scan, and a repeated call returns what it returned   *)
(* before, until clearAnnotationCache(module) erases; the first find after *)
(* that returns what the list says then, the added records included.       *)
(***************************************************************************)
C19_StaleUntilCleared ==
    \A t \in Threads :
        /\ Returned(t) /\ obs[t].hit => ~obs[t].scanned
        /\ Returned(t) /\ obs[t].repeat =>
              ~obs[t].scanned /\ out[t] = obs[t].prev
        /\ ( /\ Returned(t) /\ obs[t].afterClear
             /\ RecordsWellFormed(NMD[arg[t].Mod].operands, arg[t].gv) ) =>
              Returns(out[t], arg[t].fn,
                      AnnotationValues(NMD[arg[t].Mod].operands,
                                       arg[t].gv, arg[t].prop))

\* A repeated findAll has returned [4] again although the list now gives
\* [4, 8].
C19_Witness ==
    \E t \in Threads :
        /\ Returned(t) /\ obs[t].repeat
        /\ arg[t].fn = "findAllNVVMAnnotation"
        /\ out[t].retval = <<4>>
        /\ RecordsWellFormed(NMD[arg[t].Mod].operands, arg[t].gv)
        /\ AnnotationValues(NMD[arg[t].Mod].operands, arg[t].gv, arg[t].prop) = <<4, 8>>

\* The first findAll after the clear has returned [4, 8].
C19_WitnessAfterClear ==
    \E t \in Threads :
        /\ Returned(t) /\ obs[t].afterClear
        /\ arg[t].fn = "findAllNVVMAnnotation"
        /\ out[t].retval = <<4, 8>>

(***************************************************************************)
(* C20.  A step of findOne/findAll for (m, gv) leaves the Property Map of  *)
(* every other global value of m and every entry of every other module as  *)
(* it is, and leaves a Property Map already stored for (m, gv) as it is.   *)
(***************************************************************************)
InFind(t) == arg[t].fn \in FindFns /\ pc[t] \in {"find", "populate", "reader"}

EntryOf(cache, m, g) ==
    IF m \in DOMAIN cache /\ g \in DOMAIN cache[m] THEN <<cache[m][g]>> ELSE <<>>

C20_FindChangesOnlyItsEntry ==
    [][\A t \in Threads :
          InFind(t) /\ pc'[t] # pc[t] =>
              /\ \A g \in GlobalValues \ {arg[t].gv} :
                    EntryOf(Cache', getParent(g), g) = EntryOf(Cache, getParent(g), g)
              /\ \A m \in (DOMAIN Cache') \ {arg[t].Mod} :
                    m \in DOMAIN Cache /\ Cache'[m] = Cache[m]
              /\ (DOMAIN Cache) \ {arg[t].Mod} \subseteq DOMAIN Cache'
              /\ EntryOf(Cache, arg[t].Mod, arg[t].gv) # <<>> =>
                    EntryOf(Cache', arg[t].Mod, arg[t].gv) =
                        EntryOf(Cache, arg[t].Mod, arg[t].gv)]_vars

\* A find for g1 has scanned and stored while the Property Maps of another
\* global value of its module and of a global value of another module are
\* in the cache.
C20_Witness ==
    \E t \in Threads :
        /\ Returned(t) /\ obs[t].scanned
        /\ arg[t].gv = "g1"
        /\ out[t].found
        /\ \E g \in GlobalValues \ {"g1"} :
              getParent(g) = "m1" /\ EntryOf(Cache, "m1", g) # <<>>
        /\ \E m \in (DOMAIN Cache) \ {"m1"} : Cache[m] # EmptyMap

=============================================================================
